---- MODULE Spec2Model ----
(***************************************************************************)
(* Model of the manifest Pool of yannickkirschen/manifesto (pool.go) and   *)
(* of the key derivation of manifesto.go.                                  *)
(*                                                                         *)
(* The pool is a map from ManifestKey to Manifest, a slice of listeners    *)
(* and a sync.WaitGroup.  Every notification is a goroutine of its own.    *)
(* A caller is a thread with a program counter: an exported method is a    *)
(* sequence of steps, one per access to the shared pool, so that the       *)
(* goroutines it has already started may run while it is still in its      *)
(* dispatch loop.                                                          *)
(*                                                                         *)
(* A Manifest is a Go struct that is copied by value; its Spec field is an *)
(* interface holding a pointer (the tests and examples pass &MySpec{}), so *)
(* a copy of the struct shares the payload with the original.  The model   *)
(* keeps that pointer as an address into heap.  Metadata.Labels (a map),   *)
(* Status and the backing array of Errors are shared by a copy the same    *)
(* way; Spec stands for all of them.                                       *)
(***************************************************************************)
EXTENDS Naturals, Integers, Sequences, FiniteSets, TLC

\* ------------------------------------------------------------- bounds
\* the number of calls that dispatch notifications (Apply, ApplyPartial, Delete
\* of a present key) in one run
MaxCalls == 2
\* the number of Listen calls in one run
MaxListeners == 2

\* ------------------------------------------------------------- domains
ApiVersions == {"v1"}
Kinds == {"K"}
Names == {"n1", "n2"}
\* the listener functions of the program: A and B are functions of their own,
\* B2 is a second closure of the function literal B is made from
Listeners == {"A", "B"}
Closures == {"B2"}
\* R is a listener that applies the manifest it is notified of again, with
\* pool.ApplyPartial(R, manifest)
Reappliers == {"R"}
\* a listener that calls pool.Wait() when it is notified
Waiters == {"W"}
\* where the payloads (*MySpec) of the caller's manifests live
Addrs == {1, 2, 3}
Nil == 0
Payloads == {"hello", "changed"}
\* the caller's manifest variables
Slots == {1, 2, 3}
Threads == {"t1", "t2"}
\* the test functions handed to Find
Tests == {"any", "isN1"}

\* ------------------------------------------------------------- manifesto.go
ManifestKey(apiVersion, kind, name) ==
    [ApiVersion |-> apiVersion, Kind |-> kind, Name |-> name]

Keys == {ManifestKey(a, k, n) : a \in ApiVersions, k \in Kinds, n \in Names}

\* the zero value of Manifest
ZeroManifest == [ApiVersion |-> "", Kind |-> "", Name |-> "", Spec |-> Nil]

CreateKey(manifest) ==
    ManifestKey(manifest.ApiVersion, manifest.Kind, manifest.Name)

\* the manifest a parse hands to the caller: its payload is allocated at addr
NewManifest(name, addr) ==
    [ApiVersion |-> "v1", Kind |-> "K", Name |-> name, Spec |-> addr]

\* The documents at hand.  The envelope is apiVersion, kind and metadata.name;
\* spec and status are subtrees (yaml.Node) that are decoded afterwards.  A
\* document that is not YAML at all has syntax "bad".
DocVersions == {"v1", "v2"}
Nodes == {"absent", "message: hello", "message: [1]", "plain"}
\* the shapes a caller hands to Parse, or registers: *MySpec and *string
Shapes == {"MySpec", "string"}

Docs ==
    [syntax : {"ok", "bad"}, ApiVersion : DocVersions, Kind : Kinds, Name : {"n1"},
     Spec : Nodes, Status : Nodes]

ResourceKey(apiVersion, kind) == [ApiVersion |-> apiVersion, Kind |-> kind]

\* node.Decode(shape) of yaml.v3: the error, and the value the shape then holds.
\* A subtree that is absent decodes as null and leaves the shape at its zero
\* value; a mapping does not fit a string, a scalar or a sequence does not fit
\* a struct or a string field.
Decode(node, shape) ==
    CASE node = "absent" -> [err |-> FALSE, value |-> "zero"]
      [] node = "message: hello" ->
            IF shape = "MySpec" THEN [err |-> FALSE, value |-> "hello"]
            ELSE [err |-> TRUE, value |-> "zero"]
      [] node = "message: [1]" -> [err |-> TRUE, value |-> "zero"]
      [] node = "plain" ->
            IF shape = "string" THEN [err |-> FALSE, value |-> "plain"]
            ELSE [err |-> TRUE, value |-> "zero"]

\* parseSpecAndStatus: the error it returns, "" for nil
parseSpecAndStatusSpecOnly(specNode, statusNode, spec, status) ==
    IF Decode(specNode, spec).err THEN "error decoding spec" ELSE ""

parseSpecAndStatus(specNode, statusNode, spec, status) ==
    IF Decode(specNode, spec).err THEN "error decoding spec"
    ELSE IF Decode(statusNode, status).err THEN "error decoding status"
    ELSE ""

\* the Manifest a parse returns: the envelope of the document, and Spec and
\* Status set to the decoded shapes only if both decoded
Envelope(internal) ==
    [ApiVersion |-> internal.ApiVersion, Kind |-> internal.Kind, Name |-> internal.Name,
     Spec |-> "nil", Status |-> "nil", Errors |-> <<>>]

parseInternalManifest(internal, spec, status) ==
    LET manifest == Envelope(internal)
        err == parseSpecAndStatus(internal.Spec, internal.Status, spec, status)
    IN  IF err # ""
        THEN [manifest EXCEPT !.Errors = Append(@, err)]
        ELSE [manifest EXCEPT !.Spec = Decode(internal.Spec, spec).value,
                              !.Status = Decode(internal.Status, status).value]

\* autoParseInternalManifest: the types are looked up under the resource key of
\* the document; a lookup that fails yields the nil reflect.Type and an error
\* in the manifest, and reflect.New panics on the nil type
autoParseInternalManifest(internal, types) ==
    LET key == ResourceKey(internal.ApiVersion, internal.Kind)
        ok == key \in DOMAIN types
        manifest == Envelope(internal)
        noted == IF ok THEN manifest
                 ELSE [manifest EXCEPT !.Errors =
                          @ \o <<"no type has been found to parse spec",
                                 "no type has been found to parse status">>]
    IN  IF ~ok THEN [st |-> "panic", manifest |-> noted]
        ELSE [st |-> "returned",
              manifest |-> LET err == parseSpecAndStatus(internal.Spec, internal.Status,
                                                          types[key], types[key])
                           IN  IF err # ""
                               THEN [noted EXCEPT !.Errors = Append(@, err)]
                               ELSE [noted EXCEPT
                                       !.Spec = Decode(internal.Spec, types[key]).value,
                                       !.Status = Decode(internal.Status, types[key]).value]]

\* ------------------------------------------------------------- pool.go
Created == "Created"
Updated == "Updated"
Deleted == "Deleted"

\* fmt.Sprintf("%v", listener): a func value is formatted as its code pointer,
\* which the closures of one function literal share
Sprintf(listener) ==
    CASE listener = "A" -> "0x47b0c0"
      [] listener = "B" -> "0x47b1e0"
      [] listener = "B2" -> "0x47b1e0"
      [] listener = "R" -> "0x47b300"
      [] listener = "W" -> "0x47b420"

\* manifest, ok := pool.manifests[*key]
LookupAlwaysOk(manifests_, key) ==
    [manifest |-> IF key \in DOMAIN manifests_ THEN manifests_[key] ELSE ZeroManifest,
     ok |-> TRUE]

Lookup(manifests_, key) ==
    IF key \in DOMAIN manifests_
    THEN [manifest |-> manifests_[key], ok |-> TRUE]
    ELSE [manifest |-> ZeroManifest, ok |-> FALSE]

\* pool.manifests[*key] = manifest
StoreNothing(manifests_, key, manifest) == manifests_

StoreWithoutName(manifests_, key, manifest) ==
    [k \in DOMAIN manifests_ \cup {ManifestKey(key.ApiVersion, key.Kind, "")} |->
        IF k = ManifestKey(key.ApiVersion, key.Kind, "") THEN manifest ELSE manifests_[k]]

StoreAlone(manifests_, key, manifest) == [k \in {key} |-> manifest]

Store(manifests_, key, manifest) ==
    [k \in DOMAIN manifests_ \cup {key} |->
        IF k = key THEN manifest ELSE manifests_[k]]

\* delete(pool.manifests, *key)
RemoveNothing(manifests_, key) == manifests_

Remove(manifests_, key) ==
    [k \in DOMAIN manifests_ \ {key} |-> manifests_[k]]

\* the branch of Apply and ApplyPartial: Updated if the key is there
ActionOfCreated(ok) == Created

ActionOfUpdated(ok) == Updated

ActionOf(ok) == IF ok THEN Updated ELSE Created

\* whether the loop of op calls pool.apply for listener
NotifiesUpdatedOnly(op, ok, except, listener) == ok

NotifiesAll(op, ok, except, listener) == TRUE

NotifiesExceptAlways(op, ok, except, listener) ==
    IF op = "ApplyPartial" THEN Sprintf(listener) # Sprintf(except) ELSE TRUE

Notifies(op, ok, except, listener) ==
    IF op = "ApplyPartial" /\ ok
    THEN Sprintf(listener) # Sprintf(except)
    ELSE TRUE

\* pool.wg.Add(1), pool.wg.Done(), and what lets pool.wg.Wait() return
WgAddNothing(wg_) == wg_

WgAdd(wg_) == wg_ + 1

WgDone(wg_) == wg_ - 1

WgIsZeroOrOne(wg_) == wg_ <= 1

WgIsZeroAlways(wg_) == TRUE

WgIsZero(wg_) == wg_ = 0

\* the go statement of pool.apply and of Delete: whether the caller goes on to
\* the next listener while the goroutines of its call have not finished
ProceedsWhenDone(gor_, call) == \A g \in gor_ : g.call = call => g.st = "done"

Proceeds(gor_, call) == TRUE

\* test(manifest) of Find
Test(test, manifest) == test = "any" \/ manifest.Name = "n1"

\* the orders in which a range over a map with the keys ks may visit them
RangeOrdersSkipOne(ks) ==
    {q \in [1..(IF ks = {} THEN 0 ELSE Cardinality(ks) - 1) -> ks] :
        \A i, j \in DOMAIN q : i # j => q[i] # q[j]}

RangeOrders(ks) ==
    {q \in [1..Cardinality(ks) -> ks] : \A i, j \in DOMAIN q : i # j => q[i] # q[j]}

\* what a read through the Spec pointer of manifest finds
Deref(heap_, manifest) ==
    IF manifest.Spec = Nil THEN "nil" ELSE heap_[manifest.Spec]

\* ------------------------------------------------------------- state
VARIABLES
    manifests,  \* pool.manifests
    listeners,  \* pool.listeners
    wg,         \* the counter of pool.wg
    gor,        \* the goroutines started by pool.apply and Delete
    pc,         \* where each caller is
    frame,      \* the locals of each caller's current (or last) call
    orig,       \* the caller's manifest variables
    got,        \* what the caller's last GetByKey returned
    heap,       \* the payloads the manifests point to
    calls,      \* history: the calls that dispatched, in order
    found,      \* what the caller's last Find returned
    parse       \* the document at hand, the registered types and the parse of it

vars == <<manifests, listeners, wg, gor, pc, frame, orig, got, heap, calls, found, parse>>

\* no document is at hand
NoParse ==
    [doc |-> [syntax |-> "ok", ApiVersion |-> "", Kind |-> "", Name |-> "",
              Spec |-> "absent", Status |-> "absent"],
     types |-> [k \in {} |-> "MySpec"], st |-> "none", op |-> "none",
     spec |-> "none", status |-> "none",
     manifest |-> [ApiVersion |-> "", Kind |-> "", Name |-> "", Spec |-> "nil",
                   Status |-> "nil", Errors |-> <<>>]]

NoFrame ==
    [op |-> "none", key |-> ManifestKey("", "", ""), manifest |-> ZeroManifest,
     ok |-> FALSE, except |-> "none", ls |-> <<>>, i |-> 0, call |-> 0,
     listener |-> "none", test |-> "none"]

\* CreatePool(), and a caller that has parsed three manifests: two of the same
\* name with payloads of their own, one of another name
Init ==
    /\ manifests = [k \in {} |-> ZeroManifest]
    /\ listeners = <<>>
    /\ wg = 0
    /\ gor = {}
    /\ pc = [t \in Threads |-> IF t = "t1" THEN "idle" ELSE "off"]
    /\ frame = [t \in Threads |-> NoFrame]
    /\ orig = [s \in Slots |-> NewManifest(IF s = 3 THEN "n2" ELSE "n1", s)]
    /\ got = [manifest |-> ZeroManifest, ok |-> FALSE]
    /\ heap = [a \in Addrs |-> "hello"]
    /\ calls = <<>>
    /\ found = <<>>
    /\ parse = NoParse

\* what a goroutine whose listener has not read the pool holds as the result
NotRead == [manifest |-> ZeroManifest, ok |-> FALSE]

\* the frame of a call that has returned: what the call was and what it found
Returned(f) == [NoFrame EXCEPT !.op = f.op, !.key = f.key, !.ok = f.ok]

\* the goroutines of call c
GorOf(c) == {g \in gor : g.call = c}

\* the number of calls that may still dispatch
Dispatching == Len(calls) + Cardinality({t \in Threads : pc[t] = "store"})

\* ------------------------------------------------------------- the caller
\* pool.Listen(l)
Listen(t, l) ==
    /\ pc[t] = "idle"
    /\ Len(listeners) < MaxListeners
    /\ listeners' = Append(listeners, l)
    /\ frame' = [frame EXCEPT ![t] = [NoFrame EXCEPT !.op = "Listen"]]
    /\ UNCHANGED <<manifests, wg, gor, pc, orig, got, heap, calls, found, parse>>

\* pool.Apply(orig[s]) up to its branch: the manifest is passed by value,
\* key := manifest.CreateKey(), and _, ok := pool.manifests[*key]
CallApply(t, s) ==
    /\ pc[t] = "idle"
    /\ Dispatching < MaxCalls
    /\ pc' = [pc EXCEPT ![t] = "store"]
    /\ frame' = [frame EXCEPT ![t] = [NoFrame EXCEPT !.op = "Apply",
                    !.manifest = orig[s], !.key = CreateKey(orig[s]),
                    !.ok = Lookup(manifests, CreateKey(orig[s])).ok]]
    /\ UNCHANGED <<manifests, listeners, wg, gor, orig, got, heap, calls, found, parse>>

\* pool.ApplyPartial(l, orig[s]) up to its branch
CallApplyPartial(t, l, s) ==
    /\ pc[t] = "idle"
    /\ Dispatching < MaxCalls
    /\ pc' = [pc EXCEPT ![t] = "store"]
    /\ frame' = [frame EXCEPT ![t] = [NoFrame EXCEPT !.op = "ApplyPartial",
                    !.manifest = orig[s], !.key = CreateKey(orig[s]), !.except = l,
                    !.ok = Lookup(manifests, CreateKey(orig[s])).ok]]
    /\ UNCHANGED <<manifests, listeners, wg, gor, orig, got, heap, calls, found, parse>>

\* pool.ApplySilent(orig[s]): pool.manifests[*manifest.CreateKey()] = manifest
ApplySilent(t, s) ==
    /\ pc[t] = "idle"
    /\ manifests' = Store(manifests, CreateKey(orig[s]), orig[s])
    /\ frame' = [frame EXCEPT ![t] = [NoFrame EXCEPT !.op = "ApplySilent",
                    !.manifest = orig[s], !.key = CreateKey(orig[s])]]
    /\ UNCHANGED <<listeners, wg, gor, pc, orig, got, heap, calls, found, parse>>

\* pool.Delete(&k) up to its branch: manifest, ok := pool.manifests[*key], and
\* the call returns if !ok
CallDelete(t, k) ==
    /\ pc[t] = "idle"
    /\ Dispatching < MaxCalls
    /\ LET r == Lookup(manifests, k)
       IN  /\ pc' = [pc EXCEPT ![t] = IF r.ok THEN "store" ELSE "idle"]
           /\ frame' = [frame EXCEPT ![t] =
                         IF r.ok THEN [NoFrame EXCEPT !.op = "Delete", !.key = k,
                                                      !.ok = TRUE, !.manifest = r.manifest]
                         ELSE [NoFrame EXCEPT !.op = "Delete", !.key = k]]
    /\ UNCHANGED <<manifests, listeners, wg, gor, orig, got, heap, calls, found, parse>>

\* the record of a dispatching call, as the history keeps it
CallRecord(t) ==
    [op |-> frame[t].op, key |-> frame[t].key,
     manifest |-> IF frame[t].op = "Delete" THEN manifests[frame[t].key]
                  ELSE frame[t].manifest,
     present |-> frame[t].key \in DOMAIN manifests,
     except |-> frame[t].except, ls |-> listeners,
     payload |-> Deref(heap, frame[t].manifest)]

\* pool.manifests[*key] = manifest of Apply and ApplyPartial, delete(pool.manifests,
\* *key) of Delete; then the range over pool.listeners begins
StoreStep(t) ==
    /\ pc[t] = "store"
    /\ manifests' = IF frame[t].op = "Delete"
                    THEN Remove(manifests, frame[t].key)
                    ELSE Store(manifests, frame[t].key, frame[t].manifest)
    /\ calls' = Append(calls, CallRecord(t))
    /\ frame' = [frame EXCEPT ![t] =
                  IF listeners = <<>> THEN Returned(@)
                  ELSE [@ EXCEPT !.ls = listeners, !.i = 1, !.call = Len(calls) + 1]]
    /\ pc' = [pc EXCEPT ![t] = IF listeners = <<>> THEN "idle" ELSE "dispatch"]
    /\ UNCHANGED <<listeners, wg, gor, orig, got, heap, found, parse>>

\* the action a goroutine of the call of t hands to its listener
ActionFor(t) == IF frame[t].op = "Delete" THEN Deleted ELSE ActionOf(frame[t].ok)

\* one iteration of the range over pool.listeners: pool.apply(listener, action,
\* &manifest), or the body of Delete's loop, is wg.Add(1) and a go statement
DispatchStep(t) ==
    /\ pc[t] = "dispatch"
    /\ Proceeds(gor, frame[t].call)
    /\ LET f == frame[t]
           l == f.ls[f.i]
       IN  /\ IF Notifies(f.op, f.ok, f.except, l)
              THEN /\ wg' = WgAdd(wg)
                   /\ gor' = gor \cup {[call |-> f.call, idx |-> f.i, listener |-> l,
                                         action |-> ActionFor(t), manifest |-> f.manifest,
                                         st |-> "spawned", ord |-> 0, saw |-> "none",
                                         read |-> NotRead]}
              ELSE UNCHANGED <<wg, gor>>
           /\ frame' = [frame EXCEPT ![t] =
                         IF f.i = Len(f.ls) THEN Returned(@) ELSE [@ EXCEPT !.i = f.i + 1]]
           /\ pc' = [pc EXCEPT ![t] = IF f.i = Len(f.ls) THEN "idle" ELSE "dispatch"]
    /\ UNCHANGED <<manifests, listeners, orig, got, heap, calls, found, parse>>

\* pool.GetByKey(&k)
GetByKey(t, k) ==
    /\ pc[t] = "idle"
    /\ got' = Lookup(manifests, k)
    /\ frame' = [frame EXCEPT ![t] = [NoFrame EXCEPT !.op = "GetByKey"]]
    /\ UNCHANGED <<manifests, listeners, wg, gor, pc, orig, heap, calls, found, parse>>

\* pool.Find(test): the manifests of the range over pool.manifests that pass
\* the test, in the order the range visits them
Find(t, test) ==
    /\ pc[t] = "idle"
    /\ \E q \in RangeOrders({k \in DOMAIN manifests : Test(test, manifests[k])}) :
          found' = [i \in DOMAIN q |-> manifests[q[i]]]
    /\ frame' = [frame EXCEPT ![t] = [NoFrame EXCEPT !.op = "Find", !.test = test]]
    /\ UNCHANGED <<manifests, listeners, wg, gor, pc, orig, got, heap, calls, parse>>

\* pool.Wait(): pool.wg.Wait() blocks until the counter is zero
CallWait(t) ==
    /\ pc[t] = "idle"
    /\ pc' = [pc EXCEPT ![t] = "wait"]
    /\ frame' = [frame EXCEPT ![t] = [NoFrame EXCEPT !.op = "Wait"]]
    /\ UNCHANGED <<manifests, listeners, wg, gor, orig, got, heap, calls, found, parse>>

WaitReturn(t) ==
    /\ pc[t] = "wait"
    /\ WgIsZero(wg)
    /\ pc' = [pc EXCEPT ![t] = "idle"]
    /\ UNCHANGED <<manifests, listeners, wg, gor, frame, orig, got, heap, calls, found, parse>>

\* the caller writes to a manifest of its own: m.Metadata.Name = n
MutateName(t, s, n) ==
    /\ pc[t] = "idle"
    /\ orig' = [orig EXCEPT ![s].Name = n]
    /\ UNCHANGED <<manifests, listeners, wg, gor, pc, frame, got, heap, calls, found, parse>>

\* the caller writes to the payload of a manifest of its own, through the
\* pointer in Spec: m.Spec.(*MySpec).Message = v
MutatePayload(t, s, v) ==
    /\ pc[t] = "idle"
    /\ heap' = [heap EXCEPT ![orig[s].Spec] = v]
    /\ UNCHANGED <<manifests, listeners, wg, gor, pc, frame, orig, got, calls, found, parse>>

\* the caller writes to the manifest GetByKey returned, and to its payload
MutateGotName(t, n) ==
    /\ pc[t] = "idle"
    /\ got.ok
    /\ got' = [got EXCEPT !.manifest.Name = n]
    /\ UNCHANGED <<manifests, listeners, wg, gor, pc, frame, orig, heap, calls, found, parse>>

MutateGotPayload(t, v) ==
    /\ pc[t] = "idle"
    /\ got.ok
    /\ got.manifest.Spec # Nil
    /\ heap' = [heap EXCEPT ![got.manifest.Spec] = v]
    /\ UNCHANGED <<manifests, listeners, wg, gor, pc, frame, orig, got, calls, found, parse>>

\* ------------------------------------------------------------- parsing
\* RegisterType(apiVersion, kind, shape, shape)
RegisterType(apiVersion, kind, shape) ==
    /\ parse.st = "read"
    /\ parse' = [parse EXCEPT !.types =
                    [k \in DOMAIN @ \cup {ResourceKey(apiVersion, kind)} |->
                        IF k = ResourceKey(apiVersion, kind) THEN shape ELSE @[k]]]
    /\ UNCHANGED <<manifests, listeners, wg, gor, pc, frame, orig, got, heap, calls, found>>

\* ParseBytes(doc, spec, status), and ParseString, ParseReader and ParseFile,
\* which come to the same: yaml.Unmarshal of the envelope, log.Fatal if that
\* fails, then parseInternalManifest
ParseBytes(spec, status) ==
    /\ parse.st = "read"
    /\ parse' = IF parse.doc.syntax = "bad"
                THEN [parse EXCEPT !.st = "fatal", !.op = "Parse"]
                ELSE [parse EXCEPT !.st = "returned", !.op = "Parse",
                                   !.spec = spec, !.status = status,
                                   !.manifest = parseInternalManifest(parse.doc, spec, status)]
    /\ UNCHANGED <<manifests, listeners, wg, gor, pc, frame, orig, got, heap, calls, found>>

\* AutoParseBytes(doc), and AutoParseString, AutoParseReader and AutoParseFile
AutoParseBytes ==
    /\ parse.st = "read"
    /\ parse' = IF parse.doc.syntax = "bad"
                THEN [parse EXCEPT !.st = "fatal", !.op = "AutoParse"]
                ELSE LET r == autoParseInternalManifest(parse.doc, parse.types)
                     IN  [parse EXCEPT !.st = r.st, !.op = "AutoParse",
                                       !.manifest = r.manifest]
    /\ UNCHANGED <<manifests, listeners, wg, gor, pc, frame, orig, got, heap, calls, found>>

\* ------------------------------------------------------------- several callers
\* The pool has no lock.  Each request of the HTTP endpoint is served in a
\* goroutine of its own that calls pool.Apply, while the program that set the
\* endpoint up goes on using the pool.
Serve(t) ==
    /\ pc[t] = "off"
    /\ pc' = [pc EXCEPT ![t] = "idle"]
    /\ UNCHANGED <<manifests, listeners, wg, gor, frame, orig, got, heap, calls, found, parse>>

\* pool.listeners = append(pool.listeners, l) is a read of the slice and a
\* write of the slice that append returns
ListenRead(t, l) ==
    /\ pc[t] = "idle"
    /\ Len(listeners) < MaxListeners
    /\ pc' = [pc EXCEPT ![t] = "append"]
    /\ frame' = [frame EXCEPT ![t] = [NoFrame EXCEPT !.op = "Listen", !.ls = listeners,
                                                      !.listener = l]]
    /\ UNCHANGED <<manifests, listeners, wg, gor, orig, got, heap, calls, found, parse>>

ListenWrite(t) ==
    /\ pc[t] = "append"
    /\ listeners' = Append(frame[t].ls, frame[t].listener)
    /\ pc' = [pc EXCEPT ![t] = "idle"]
    /\ frame' = [frame EXCEPT ![t] = [NoFrame EXCEPT !.op = "Listen",
                                                      !.listener = frame[t].listener]]
    /\ UNCHANGED <<manifests, wg, gor, orig, got, heap, calls, found, parse>>

\* the threads whose access to the map or to the slice of listeners is not
\* ordered with the map write and the range of t that follow: they are in a
\* call of their own, between its read and its write
Racing(t) == {u \in Threads \ {t} : pc[u] \in {"store", "append"}}

\* A data race has no defined outcome.  The accesses may go through one after
\* the other (StoreStep).  The runtime may find the map being written by two
\* goroutines and throw "concurrent map writes", or the slice header may be
\* read half written and a listener called that is none: the process exits.
RaceFatal(t) ==
    /\ pc[t] = "store"
    /\ Racing(t) # {}
    /\ pc' = [u \in Threads |-> "fatal"]
    /\ UNCHANGED <<manifests, listeners, wg, gor, frame, orig, got, heap, calls, found, parse>>

\* Or two writes to the map go through together and the entry of one is lost.
StoreLost(t) ==
    /\ pc[t] = "store"
    /\ \E u \in Racing(t) : pc[u] = "store"
    /\ calls' = Append(calls, CallRecord(t))
    /\ frame' = [frame EXCEPT ![t] =
                  IF listeners = <<>> THEN Returned(@)
                  ELSE [@ EXCEPT !.ls = listeners, !.i = 1, !.call = Len(calls) + 1]]
    /\ pc' = [pc EXCEPT ![t] = IF listeners = <<>> THEN "idle" ELSE "dispatch"]
    /\ UNCHANGED <<manifests, listeners, wg, gor, orig, got, heap, found, parse>>

\* ------------------------------------------------------------- the goroutines
\* the goroutine runs: listener(pool, action, *manifest). The listener is handed a
\* copy of the struct and reads the payload through its Spec pointer
GoStart(g) ==
    /\ g.st = "spawned"
    /\ gor' = (gor \ {g}) \cup
              {[g EXCEPT !.st = "running",
                         !.ord = 1 + Cardinality({h \in gor : h.idx = g.idx /\ h.ord > 0}),
                         !.saw = Deref(heap, g.manifest)]}
    /\ UNCHANGED <<manifests, listeners, wg, pc, frame, orig, got, heap, calls, found, parse>>

\* the goroutine runs a listener that reads the pool it is handed:
\* pool.GetByKey(manifest.CreateKey())
GoStartRead(g) ==
    /\ g.st = "spawned"
    /\ gor' = (gor \ {g}) \cup
              {[g EXCEPT !.st = "running",
                         !.ord = 1 + Cardinality({h \in gor : h.idx = g.idx /\ h.ord > 0}),
                         !.saw = Deref(heap, g.manifest),
                         !.read = Lookup(manifests, CreateKey(g.manifest))]}
    /\ UNCHANGED <<manifests, listeners, wg, pc, frame, orig, got, heap, calls, found, parse>>

\* the goroutine runs a listener that applies its manifest again: it calls
\* pool.ApplyPartial(listener, manifest) as a thread of control e of its own,
\* up to the branch of ApplyPartial
GoStartReapply(g, e) ==
    /\ g.st = "spawned"
    /\ g.listener \in Reappliers
    /\ pc[e] = "off"
    /\ Dispatching <= MaxCalls
    /\ gor' = (gor \ {g}) \cup
              {[g EXCEPT !.st = "running",
                         !.ord = 1 + Cardinality({h \in gor : h.idx = g.idx /\ h.ord > 0}),
                         !.saw = Deref(heap, g.manifest)]}
    /\ pc' = [pc EXCEPT ![e] = "store"]
    /\ frame' = [frame EXCEPT ![e] = [NoFrame EXCEPT !.op = "ApplyPartial",
                    !.manifest = g.manifest, !.key = CreateKey(g.manifest),
                    !.except = g.listener,
                    !.ok = Lookup(manifests, CreateKey(g.manifest)).ok]]
    /\ UNCHANGED <<manifests, listeners, wg, orig, got, heap, calls, found, parse>>

\* its ApplyPartial has returned, and the listener returns
GoDoneReapply(g, e) ==
    /\ g.st = "running"
    /\ g.listener \in Reappliers
    /\ pc[e] = "idle"
    /\ frame[e].op = "ApplyPartial" /\ frame[e].ls = <<>>
    /\ gor' = (gor \ {g}) \cup {[g EXCEPT !.st = "done"]}
    /\ wg' = WgDone(wg)
    /\ pc' = [pc EXCEPT ![e] = "off"]
    /\ UNCHANGED <<manifests, listeners, frame, orig, got, heap, calls, found, parse>>

\* the goroutine runs a listener that calls pool.Wait(): the listener blocks in
\* pool.wg.Wait(), and when that returns the listener returns and the deferred
\* pool.wg.Done() runs
GoWait(g) ==
    /\ g.listener \in Waiters
    /\ \/ /\ g.st = "spawned"
          /\ gor' = (gor \ {g}) \cup
                    {[g EXCEPT !.st = "waiting",
                               !.ord = 1 + Cardinality({h \in gor : h.idx = g.idx /\ h.ord > 0}),
                               !.saw = Deref(heap, g.manifest)]}
          /\ wg' = wg
       \/ /\ g.st = "waiting"
          /\ WgIsZero(wg)
          /\ gor' = (gor \ {g}) \cup {[g EXCEPT !.st = "done"]}
          /\ wg' = WgDone(wg)
    /\ UNCHANGED <<manifests, listeners, pc, frame, orig, got, heap, calls, found, parse>>

\* every caller and every unfinished goroutine is blocked in pool.wg.Wait():
\* the runtime may find that nothing can run and end the process
AllAsleep ==
    /\ \A t \in Threads : pc[t] \in {"wait", "off"}
    /\ \E t \in Threads : pc[t] = "wait"
    /\ \A g \in gor : g.st \in {"waiting", "done"}
    /\ \E g \in gor : g.st = "waiting"
    /\ pc' = [u \in Threads |-> "fatal"]
    /\ UNCHANGED <<manifests, listeners, wg, gor, frame, orig, got, heap, calls, found, parse>>

\* the listener returns: defer pool.wg.Done()
GoDone(g) ==
    /\ g.st = "running"
    /\ gor' = (gor \ {g}) \cup {[g EXCEPT !.st = "done"]}
    /\ wg' = WgDone(wg)
    /\ UNCHANGED <<manifests, listeners, pc, frame, orig, got, heap, calls, found, parse>>

\* ------------------------------------------------------------- specifications
\* One caller that registers listeners, applies and deletes; the listeners only
\* take what they are handed.
Next ==
    \/ \E t \in Threads, l \in Listeners : Listen(t, l)
    \/ \E t \in Threads, s \in Slots : CallApply(t, s)
    \/ \E t \in Threads, l \in Listeners, s \in Slots : CallApplyPartial(t, l, s)
    \/ \E t \in Threads, s \in Slots : ApplySilent(t, s)
    \/ \E t \in Threads, k \in Keys : CallDelete(t, k)
    \/ \E t \in Threads : StoreStep(t)
    \/ \E t \in Threads : DispatchStep(t)
    \/ \E g \in gor : GoStart(g)
    \/ \E g \in gor : GoDone(g)

Spec == Init /\ [][Next]_vars

\* The caller also waits, and whatever can run does run: a call that has begun
\* runs to its return, a goroutine that was started is scheduled, a listener
\* that runs returns, and a Wait whose counter is zero returns.
NextWait ==
    \/ \E t \in Threads, l \in Listeners : Listen(t, l)
    \/ \E t \in Threads, s \in Slots : CallApply(t, s)
    \/ \E t \in Threads, l \in Listeners, s \in Slots : CallApplyPartial(t, l, s)
    \/ \E t \in Threads, k \in Keys : CallDelete(t, k)
    \/ \E t \in Threads : StoreStep(t)
    \/ \E t \in Threads : DispatchStep(t)
    \/ \E t \in Threads : CallWait(t)
    \/ \E t \in Threads : WaitReturn(t)
    \/ \E g \in gor : GoStart(g)
    \/ \E g \in gor : GoDone(g)

Scheduled ==
    \/ \E t \in Threads : StoreStep(t) \/ DispatchStep(t) \/ WaitReturn(t)
    \/ \E g \in gor : GoStart(g) \/ GoDone(g)

FairSpec == Init /\ [][NextWait]_vars /\ WF_vars(Scheduled)

\* A caller with one manifest variable and one listener function keeps writing
\* to the manifest it applied and to the one it got back from the pool.
NextAlias ==
    \/ \E t \in Threads : Listen(t, "A")
    \/ \E t \in Threads : CallApply(t, 1)
    \/ \E t \in Threads, k \in Keys : CallDelete(t, k)
    \/ \E t \in Threads : StoreStep(t)
    \/ \E t \in Threads : DispatchStep(t)
    \/ \E t \in Threads, k \in Keys : GetByKey(t, k)
    \/ \E t \in Threads, n \in Names : MutateName(t, 1, n)
    \/ \E t \in Threads, v \in Payloads : MutatePayload(t, 1, v)
    \/ \E t \in Threads, n \in Names : MutateGotName(t, n)
    \/ \E t \in Threads, v \in Payloads : MutateGotPayload(t, v)
    \/ \E g \in gor : GoStart(g)
    \/ \E g \in gor : GoDone(g)

AliasSpec == Init /\ [][NextAlias]_vars

\* Every operation of the pool, for a caller with one manifest variable and one
\* listener function.  The caller's own steps are taken whenever they can be;
\* nothing is promised of the goroutines: a listener may never be scheduled,
\* and one that runs may never return.
NextStuck ==
    \/ \E t \in Threads : Listen(t, "A")
    \/ \E t \in Threads : CallApply(t, 1)
    \/ \E t \in Threads : CallApplyPartial(t, "A", 1)
    \/ \E t \in Threads : ApplySilent(t, 1)
    \/ \E t \in Threads, k \in Keys : CallDelete(t, k)
    \/ \E t \in Threads : StoreStep(t)
    \/ \E t \in Threads : DispatchStep(t)
    \/ \E t \in Threads, k \in Keys : GetByKey(t, k)
    \/ \E t \in Threads, test \in Tests : Find(t, test)
    \/ \E t \in Threads : CallWait(t)
    \/ \E t \in Threads : WaitReturn(t)
    \/ \E g \in gor : GoStart(g)
    \/ \E g \in gor : GoDone(g)

\* A caller that applies two manifests of one key and deletes, and a listener
\* that looks up the key of the manifest it is notified of.
NextRead ==
    \/ \E t \in Threads : Listen(t, "A")
    \/ \E t \in Threads, s \in {1, 2} : CallApply(t, s)
    \/ \E t \in Threads, k \in Keys : CallDelete(t, k)
    \/ \E t \in Threads : StoreStep(t)
    \/ \E t \in Threads : DispatchStep(t)
    \/ \E g \in gor : GoStartRead(g)
    \/ \E g \in gor : GoDone(g)

ReadSpec == Init /\ [][NextRead]_vars

\* The program registers listeners, applies and waits while a request that
\* applies a manifest is served.
NextConc ==
    \/ \E t \in Threads : Serve(t)
    \/ \E t \in Threads : ListenRead(t, "A")
    \/ \E t \in Threads : ListenWrite(t)
    \/ \E t \in Threads, s \in Slots : CallApply(t, s)
    \/ \E t \in Threads : StoreStep(t)
    \/ \E t \in Threads : RaceFatal(t)
    \/ \E t \in Threads : StoreLost(t)
    \/ \E t \in Threads : DispatchStep(t)
    \/ \E t \in Threads : CallWait(t)
    \/ \E t \in Threads : WaitReturn(t)
    \/ \E g \in gor : GoStart(g)
    \/ \E g \in gor : GoDone(g)

ConcSpec == Init /\ [][NextConc]_vars

\* A program that has read a document, registers types and parses it.
ParseInit ==
    /\ manifests = [k \in {} |-> ZeroManifest]
    /\ listeners = <<>>
    /\ wg = 0
    /\ gor = {}
    /\ pc = [t \in Threads |-> IF t = "t1" THEN "idle" ELSE "off"]
    /\ frame = [t \in Threads |-> NoFrame]
    /\ orig = [s \in Slots |-> NewManifest(IF s = 3 THEN "n2" ELSE "n1", s)]
    /\ got = [manifest |-> ZeroManifest, ok |-> FALSE]
    /\ heap = [a \in Addrs |-> "hello"]
    /\ calls = <<>>
    /\ found = <<>>
    /\ parse \in {[NoParse EXCEPT !.doc = d, !.st = "read"] : d \in Docs}

NextParse ==
    \/ \E a \in DocVersions, k \in Kinds, shape \in Shapes : RegisterType(a, k, shape)
    \/ \E spec \in Shapes, status \in Shapes : ParseBytes(spec, status)
    \/ AutoParseBytes

ParseSpec == ParseInit /\ [][NextParse]_vars

\* A caller whose listeners include two closures of one function literal.
NextClosure ==
    \/ \E t \in Threads, l \in Listeners \cup Closures : Listen(t, l)
    \/ \E t \in Threads : ApplySilent(t, 1)
    \/ \E t \in Threads, l \in Listeners \cup Closures : CallApplyPartial(t, l, 1)
    \/ \E t \in Threads : StoreStep(t)
    \/ \E t \in Threads : DispatchStep(t)
    \/ \E g \in gor : GoStart(g)
    \/ \E g \in gor : GoDone(g)

ClosureSpec == Init /\ [][NextClosure]_vars

\* A program that registers listeners, R among them once, applies one
\* manifest and waits; R applies the manifest again when it is notified.
\* Whatever can run does run.
NextReapply ==
    \/ \E t \in {"t1"}, l \in {"A"} \cup Reappliers :
          /\ Dispatching = 0
          /\ \A i \in DOMAIN listeners : listeners[i] \in Reappliers => listeners[i] # l
          /\ Listen(t, l)
    \/ \E t \in {"t1"}, s \in Slots : Dispatching = 0 /\ CallApply(t, s)
    \/ \E t \in Threads : StoreStep(t)
    \/ \E t \in Threads : DispatchStep(t)
    \/ \E t \in {"t1"} : CallWait(t)
    \/ \E t \in {"t1"} : WaitReturn(t)
    \/ \E g \in gor : g.listener \notin Reappliers /\ GoStart(g)
    \/ \E g \in gor : g.listener \notin Reappliers /\ GoDone(g)
    \/ \E g \in gor : GoStartReapply(g, "t2")
    \/ \E g \in gor : GoDoneReapply(g, "t2")

ScheduledReapply ==
    \/ \E t \in Threads : StoreStep(t) \/ DispatchStep(t) \/ WaitReturn(t)
    \/ \E g \in gor : g.listener \notin Reappliers /\ (GoStart(g) \/ GoDone(g))
    \/ \E g \in gor : GoStartReapply(g, "t2") \/ GoDoneReapply(g, "t2")

ReapplySpec == Init /\ [][NextReapply]_vars /\ WF_vars(ScheduledReapply)

\* A program that registers listeners, W among them, applies and deletes, and
\* waits; a second caller waits as well. W calls pool.Wait() when it is notified.
NextWaiter ==
    \/ \E t \in {"t1"}, l \in {"A"} \cup Waiters : Listen(t, l)
    \/ \E t \in {"t1"}, s \in Slots : CallApply(t, s)
    \/ \E t \in {"t1"}, k \in Keys : CallDelete(t, k)
    \/ \E t \in Threads : StoreStep(t)
    \/ \E t \in Threads : DispatchStep(t)
    \/ \E t \in {"t2"} : Serve(t)
    \/ \E t \in Threads : CallWait(t)
    \/ \E t \in Threads : WaitReturn(t)
    \/ \E g \in gor : g.listener \notin Waiters /\ GoStart(g)
    \/ \E g \in gor : GoWait(g)
    \/ \E g \in gor : GoDone(g)
    \/ AllAsleep

WaiterSpec == Init /\ [][NextWaiter]_vars

\* A caller that uses the pool as a store with a listener: it stores without
\* notifying, deletes, looks up and searches.
NextFind ==
    \/ \E t \in Threads : Listen(t, "A")
    \/ \E t \in Threads, s \in Slots : ApplySilent(t, s)
    \/ \E t \in Threads, k \in Keys : CallDelete(t, k)
    \/ \E t \in Threads : StoreStep(t)
    \/ \E t \in Threads : DispatchStep(t)
    \/ \E t \in Threads, k \in Keys : GetByKey(t, k)
    \/ \E t \in Threads, test \in Tests : Find(t, test)
    \/ \E g \in gor : GoStart(g)
    \/ \E g \in gor : GoDone(g)

FindSpec == Init /\ [][NextFind]_vars

CallerRuns == \E t \in Threads : StoreStep(t) \/ DispatchStep(t)

StuckSpec == Init /\ [][NextStuck]_vars /\ WF_vars(CallerRuns)

\* ------------------------------------------------------------- properties
\* the calls of the history that have returned
ReturnedCalls == {c \in 1..Len(calls) : \A t \in Threads : frame[t].call # c}

\* the action the history expects of call c
Expected(c) ==
    IF calls[c].op = "Delete" THEN Deleted
    ELSE IF calls[c].present THEN Updated ELSE Created

\* C1: Apply dispatches Updated exactly when the key of its manifest was in the
\* registry just before the call, Created otherwise, and while the call
\* dispatches the registry already holds the manifest under its key.
C1_ApplyAction ==
    /\ \A g \in gor :
          calls[g.call].op = "Apply" =>
             g.action = (IF calls[g.call].present THEN Updated ELSE Created)
    /\ \A t \in Threads :
          (pc[t] = "dispatch" /\ frame[t].op = "Apply") =>
             /\ CreateKey(frame[t].manifest) \in DOMAIN manifests
             /\ manifests[CreateKey(frame[t].manifest)] = frame[t].manifest

\* an Apply on a present key and an Apply on an absent key have both dispatched
C1_Witness ==
    /\ \E g \in gor : calls[g.call].op = "Apply" /\ calls[g.call].present
                       /\ g.action = Updated
    /\ \E g \in gor : calls[g.call].op = "Apply" /\ ~calls[g.call].present
                       /\ g.action = Created

\* the listeners of slice ls
Range(ls) == {ls[i] : i \in 1..Len(ls)}

\* C3 (as claimed): with A and B registered, ApplyPartial(A, m) notifies every
\* registration of a listener other than A and no registration of A, whether
\* the key of m is in the registry or not.
C3_ApplyPartialExcludes ==
    \A c \in ReturnedCalls :
       (/\ calls[c].op = "ApplyPartial"
        /\ calls[c].except \in Range(calls[c].ls)
        /\ Range(calls[c].ls) # {calls[c].except}) =>
          /\ \A i \in 1..Len(calls[c].ls) :
                calls[c].ls[i] # calls[c].except =>
                   \E g \in GorOf(c) : g.idx = i
          /\ \A g \in GorOf(c) : g.listener # calls[c].except

\* C4: ApplySilent stores the manifest under its key as Apply does, starts no
\* goroutine and leaves the wait group and the listeners alone; the key is then
\* present, so that the Apply that follows on that key takes the Updated branch.
C4_ApplySilent ==
    /\ [](\A t \in Threads :
            (pc[t] = "idle" /\ frame[t].op = "ApplySilent") =>
               /\ CreateKey(frame[t].manifest) \in DOMAIN manifests
               /\ manifests[CreateKey(frame[t].manifest)] = frame[t].manifest)
    /\ [][\A t \in Threads :
            /\ (pc[t] = "idle" /\ frame'[t] # frame[t]
                                /\ frame'[t].op = "ApplySilent") =>
                  UNCHANGED <<gor, wg, listeners, calls>>
            /\ (/\ frame[t].op = "ApplySilent"
                /\ frame'[t].op = "Apply"
                /\ frame'[t].key = CreateKey(frame[t].manifest)) =>
                  ActionOf(frame'[t].ok) = Updated]_vars

\* ApplySilent has stored a manifest while a listener is registered, and the next
\* call is an Apply of that key that is about to dispatch Updated
C4_Witness ==
    \E t \in Threads :
       /\ pc[t] = "dispatch" /\ frame[t].op = "Apply" /\ frame[t].ok
       /\ Len(calls) = 1
       /\ gor = {}

\* C5: Delete of a present key removes the entry, so that a GetByKey that
\* follows reports not found, and starts one goroutine for each registration,
\* each with Deleted and the manifest the registry held before the removal.
C5_DeletePresent ==
    /\ \A t \in Threads :
          (frame[t].op = "Delete" /\ frame[t].ok /\ pc[t] \in {"dispatch", "idle"}) =>
             ~Lookup(manifests, frame[t].key).ok
    /\ \A c \in ReturnedCalls :
          calls[c].op = "Delete" =>
             /\ Cardinality(GorOf(c)) = Len(calls[c].ls)
             /\ \A i \in 1..Len(calls[c].ls) :
                   \E g \in GorOf(c) :
                      /\ g.idx = i
                      /\ g.listener = calls[c].ls[i]
                      /\ g.action = Deleted
                      /\ g.manifest = calls[c].manifest

\* a Delete of a present key has returned with two listeners registered
C5_Witness ==
    \E c \in ReturnedCalls :
       /\ calls[c].op = "Delete"
       /\ Len(calls[c].ls) = 2
       /\ \A g \in GorOf(c) : g.st = "done"
       /\ \E t \in Threads : pc[t] = "idle" /\ frame[t].op = "Delete" /\ frame[t].ok

\* C6: Delete of a key that is not in the registry returns at once and changes
\* neither the registry nor the listeners nor the wait group, and starts no
\* goroutine.
C6_DeleteAbsent ==
    [][\A t \in Threads :
         (/\ pc[t] = "idle"
          /\ frame'[t] # frame[t]
          /\ frame'[t].op = "Delete"
          /\ frame'[t].key \notin DOMAIN manifests) =>
            /\ pc'[t] = "idle"
            /\ UNCHANGED <<manifests, listeners, wg, gor, calls>>]_vars

\* a Delete of an absent key has returned while other keys are stored, listeners
\* are registered and goroutines are pending
C6_Witness ==
    \E t \in Threads :
       /\ pc[t] = "idle" /\ frame[t].op = "Delete" /\ ~frame[t].ok
       /\ frame[t].key \notin DOMAIN manifests
       /\ DOMAIN manifests # {}
       /\ listeners # <<>>
       /\ wg > 0

\* the goroutines of call c for registration i, and those among them whose
\* listener has been called
GorAt(c, i) == {g \in gor : g.call = c /\ g.idx = i}

Invoked(c, i) == {g \in GorAt(c, i) : g.st \in {"running", "done"}}

\* C2: for an Apply, and for a Delete that removes an entry, each registration
\* in the listener list at the time of the call gets at most one goroutine, with
\* the listener, the action and the manifest of the call, and that listener is
\* eventually called.
C2_EveryRegistrationOnce ==
    /\ [](\A g \in gor :
            calls[g.call].op \in {"Apply", "Delete"} =>
               /\ g.idx \in 1..Len(calls[g.call].ls)
               /\ g.listener = calls[g.call].ls[g.idx]
               /\ g.action = Expected(g.call)
               /\ g.manifest = calls[g.call].manifest
               /\ Cardinality(GorAt(g.call, g.idx)) = 1)
    /\ \A c \in 1..MaxCalls, i \in 1..MaxListeners :
          (/\ c <= Len(calls)
           /\ calls[c].op \in {"Apply", "Delete"}
           /\ i <= Len(calls[c].ls))
             ~> (Cardinality(Invoked(c, i)) = 1)

\* an Apply and a Delete have both reached a listener that is registered twice
C2_Witness ==
    /\ Len(calls) = 2
    /\ calls[1].op = "Apply" /\ calls[2].op = "Delete"
    /\ calls[1].ls = <<"A", "A">> /\ calls[2].ls = <<"A", "A">>
    /\ \A c \in 1..2, i \in 1..2 : \E g \in Invoked(c, i) : g.st = "done"

\* the pairs of calls that apply one manifest value twice in immediate
\* succession, the first time to a pool that does not hold its key
AppliedTwice(c) ==
    /\ c + 1 <= Len(calls)
    /\ calls[c].op = "Apply" /\ calls[c + 1].op = "Apply"
    /\ calls[c].manifest = calls[c + 1].manifest
    /\ ~calls[c].present

\* C7 (as claimed): when a manifest is applied twice in a row to a pool without
\* its key, every listener gets one Created and one Updated and receives the
\* Created before the Updated, and the registry holds one entry for the key.
C7_CreatedBeforeUpdated ==
    \A c \in 1..Len(calls) :
       AppliedTwice(c) =>
          /\ \A g \in GorOf(c) : g.action = Created
          /\ \A g \in GorOf(c + 1) : g.action = Updated
          /\ \A i \in 1..Len(calls[c].ls) :
                \A g2 \in Invoked(c + 1, i) :
                   \E g1 \in Invoked(c, i) : g1.ord < g2.ord
          /\ Cardinality({k \in DOMAIN manifests :
                             CreateKey(manifests[k]) = calls[c].key}) = 1

\* C7 (amended): every registration is dispatched one Created and then one
\* Updated, the registry holds one entry for the key, and both notifications
\* eventually reach the listener, in either order.
C7_CreatedAndUpdated ==
    /\ [](\A c \in 1..Len(calls) :
            AppliedTwice(c) =>
               /\ \A g \in GorOf(c) : g.action = Created
               /\ \A g \in GorOf(c + 1) : g.action = Updated
               /\ \A i \in 1..Len(calls[c].ls) :
                     /\ Cardinality(GorAt(c, i)) <= 1
                     /\ Cardinality(GorAt(c + 1, i)) <= 1
                     /\ GorAt(c + 1, i) # {} => GorAt(c, i) # {}
               /\ (c + 1 = Len(calls)) =>
                     Cardinality({k \in DOMAIN manifests :
                                    CreateKey(manifests[k]) = calls[c].key}) = 1)
    /\ \A c \in 1..MaxCalls, i \in 1..MaxListeners :
          (AppliedTwice(c) /\ i <= Len(calls[c].ls))
             ~> (/\ Cardinality(Invoked(c, i)) = 1
                 /\ Cardinality(Invoked(c + 1, i)) = 1)

\* a manifest was applied twice with two listeners registered, and one of them
\* has received the Updated before the Created
C7_Witness ==
    /\ AppliedTwice(1)
    /\ Len(calls[1].ls) = 2
    /\ \A g \in gor : g.st = "done"
    /\ Cardinality(gor) = 4
    /\ \E g1 \in Invoked(1, 1), g2 \in Invoked(2, 1) : g2.ord < g1.ord

\* C10: Wait returns only when every goroutine that was started has finished,
\* and a Wait that was called does return.
C10_Wait ==
    /\ [][\A t \in Threads :
            (pc[t] = "wait" /\ pc'[t] = "idle") =>
               \A g \in gor : g.st = "done"]_vars
    /\ \A t \in Threads : (pc[t] = "wait") ~> (pc[t] = "idle")

\* Wait has returned after the goroutines of two calls, one of them an
\* ApplyPartial that skipped a listener
C10_Witness ==
    \E t \in Threads :
       /\ pc[t] = "idle" /\ frame[t].op = "Wait"
       /\ Len(calls) = 2
       /\ Cardinality(gor) = 3
       /\ \A g \in gor : g.st = "done"

\* what a caller finds when it calls GetByKey(k) and reads the result
View(k) ==
    [manifest |-> Lookup(manifests, k).manifest, ok |-> Lookup(manifests, k).ok,
     payload |-> Deref(heap, Lookup(manifests, k).manifest)]

\* C8 (as claimed): a write of the caller to a manifest it applied, or to a
\* manifest GetByKey returned, changes nothing of what GetByKey returns for any
\* key.
C8_StoredValueIsolated ==
    [][(orig' # orig \/ heap' # heap \/ got' # got) =>
          \A k \in Keys : View(k)' = View(k)]_vars

\* C9 (as claimed): the listener of an Apply or ApplyPartial is handed the
\* manifest as it was when the call was made, payload included, whatever the
\* caller writes after the call has returned.
C9_ListenerSeesSnapshot ==
    \A g \in gor :
       (g.st # "spawned" /\ calls[g.call].op \in {"Apply", "ApplyPartial"}) =>
          /\ g.manifest = calls[g.call].manifest
          /\ g.saw = calls[g.call].payload

\* C11: a call of Apply, ApplyPartial or Delete that has begun returns, whether
\* or not the goroutines it started are ever scheduled or ever finish; Listen,
\* ApplySilent, GetByKey and Find return in the step that calls them; and a
\* Wait stays blocked while the counter of the wait group is not zero.
C11_NeverBlocks ==
    /\ \A t \in Threads : (pc[t] \in {"store", "dispatch"}) ~> (pc[t] = "idle")
    /\ [][\A t \in Threads :
            /\ (/\ pc[t] = "idle"
                /\ frame'[t] # frame[t]
                /\ frame'[t].op \in {"Listen", "ApplySilent", "GetByKey", "Find"}) =>
                  pc'[t] = "idle"
            /\ (pc[t] = "wait" /\ ~WgIsZero(wg)) => pc'[t] = "wait"]_vars

\* an Apply has returned while a goroutine it started is still in its listener
\* and another has not been scheduled, and the caller has gone on to read
C11_Witness ==
    \E t \in Threads :
       /\ pc[t] = "idle" /\ frame[t].op = "Find"
       /\ Len(calls) = 2 /\ calls[2].op = "Apply"
       /\ \E g \in GorOf(2) : g.st = "running"
       /\ \E g \in GorOf(2) : g.st = "spawned"
       /\ Len(found) = 1

\* C12 (as claimed): a listener that looks up the key of the manifest it is
\* notified of finds the key with the manifest of the notification if the
\* action is Created or Updated, and does not find the key if it is Deleted.
C12_ListenerSeesOwnChange ==
    \A g \in gor :
       g.st # "spawned" =>
          IF g.action = Deleted
          THEN ~g.read.ok
          ELSE g.read.ok /\ g.read.manifest = g.manifest

\* C13 (as claimed): no two callers are in their access to the registry map at
\* the same time and the program is not aborted; and when two Apply calls of
\* different keys have been made by different callers, all callers have
\* returned and a Wait has returned, the registry holds both manifests.
C13_ConcurrentDistinctKeys ==
    /\ Cardinality({t \in Threads : pc[t] = "store"}) <= 1
    /\ \A t \in Threads : pc[t] # "fatal"
    /\ (/\ Len(calls) = 2
        /\ calls[1].key # calls[2].key
        /\ \A t \in Threads : pc[t] = "idle"
        /\ \E t \in Threads : frame[t].op = "Wait") =>
          \A c \in 1..2 :
             /\ calls[c].key \in DOMAIN manifests
             /\ manifests[calls[c].key] = calls[c].manifest

\* C14 (as claimed): AutoParse of a well-formed document whose apiVersion and
\* kind have no registered type returns a manifest with the envelope of the
\* document and at least one error; it does not abort.
C14_AutoParseUnregistered ==
    (/\ parse.op = "AutoParse"
     /\ parse.doc.syntax = "ok"
     /\ ResourceKey(parse.doc.ApiVersion, parse.doc.Kind) \notin DOMAIN parse.types) =>
       /\ parse.st = "returned"
       /\ Len(parse.manifest.Errors) > 0
       /\ parse.manifest.ApiVersion = parse.doc.ApiVersion
       /\ parse.manifest.Kind = parse.doc.Kind
       /\ parse.manifest.Name = parse.doc.Name

\* C15: when Parse is handed a well-formed document of which the spec or the
\* status does not decode into the shape supplied for it, it returns a manifest
\* with the envelope of the document, one error, and neither Spec nor Status.
C15_DecodeFailure ==
    (/\ parse.op = "Parse"
     /\ parse.doc.syntax = "ok"
     /\ \/ Decode(parse.doc.Spec, parse.spec).err
        \/ Decode(parse.doc.Status, parse.status).err) =>
       /\ parse.st = "returned"
       /\ parse.manifest.ApiVersion = parse.doc.ApiVersion
       /\ parse.manifest.Kind = parse.doc.Kind
       /\ parse.manifest.Name = parse.doc.Name
       /\ Len(parse.manifest.Errors) = 1
       /\ parse.manifest.Spec = "nil"
       /\ parse.manifest.Status = "nil"

\* a Parse has returned of a document whose spec decodes and whose status does
\* not
C15_Witness ==
    /\ parse.op = "Parse" /\ parse.st = "returned"
    /\ ~Decode(parse.doc.Spec, parse.spec).err
    /\ parse.doc.Spec # "absent"
    /\ Decode(parse.doc.Status, parse.status).err
    /\ parse.manifest.Errors = <<"error decoding status">>

C17_SkipsExactlyExcepted ==
    \A c \in ReturnedCalls :
       (calls[c].op = "ApplyPartial" /\ calls[c].present) =>
          \A i \in 1..Len(calls[c].ls) :
             IF calls[c].ls[i] = calls[c].except
             THEN GorAt(c, i) = {}
             ELSE /\ Cardinality(GorAt(c, i)) = 1
                  /\ \A g \in GorAt(c, i) :
                        g.listener = calls[c].ls[i] /\ g.action = Updated

\* the registrations of a listener that applies again
ReapplierAt == {i \in DOMAIN listeners : listeners[i] \in Reappliers}

\* every goroutine has finished and no call is under way
Quiescent ==
    /\ wg = 0
    /\ \A g \in gor : g.st = "done"
    /\ \A t \in Threads : pc[t] \in {"idle", "off"}

\* C18: after one Apply by the program, with one listener R that applies the
\* manifest again with ApplyPartial(R, manifest), the calls are that Apply and
\* one ApplyPartial by R, which starts no goroutine for R; the goroutines are
\* those of the two calls; and the pool comes to rest, where a Wait returns.
C18_NoEndlessLoop ==
    /\ [](/\ Len(calls) <= 1 + Cardinality(ReapplierAt)
          /\ Cardinality(gor) <= 2 * Len(listeners)
          /\ \A g \in gor : g.call > 1 => g.listener \notin Reappliers)
    /\ (Len(calls) > 0) ~> Quiescent
    /\ (pc["t1"] = "wait") ~> (pc["t1"] = "idle")

\* R and A are registered, R has applied again, A has been notified twice, R
\* once, and the Wait of the program has returned
C18_Witness ==
    /\ Quiescent
    /\ frame["t1"].op = "Wait" /\ pc["t1"] = "idle"
    /\ Len(calls) = 2 /\ calls[2].op = "ApplyPartial" /\ calls[2].except = "R"
    /\ Cardinality(gor) = 3
    /\ Cardinality({g \in gor : g.listener = "R"}) = 1

\* C19 (as claimed): of two Apply calls of one key that was not in the
\* registry, made by whatever callers, the one that stores first dispatches
\* Created and the other Updated, and the registry then holds the manifest of
\* the one that stored last.
C19_SameKeyLinearizable ==
    (/\ Len(calls) = 2
     /\ calls[1].key = calls[2].key
     /\ \A t \in Threads : pc[t] # "fatal") =>
       /\ \A g \in GorOf(1) : g.action = Created
       /\ \A g \in GorOf(2) : g.action = Updated
       /\ calls[1].key \in DOMAIN manifests
       /\ manifests[calls[1].key] = calls[2].manifest

\* C20 (as claimed): no caller is about to range over the listeners while
\* another is between the read and the write of its Listen, the program is not
\* aborted, and the listeners a call ranges over are the first of the list as
\* it is from then on.
C20_ListenRaceFree ==
    /\ \A t, u \in Threads : ~(pc[t] = "append" /\ pc[u] = "store")
    /\ \A t \in Threads : pc[t] # "fatal"
    /\ \A c \in 1..Len(calls) :
          /\ Len(calls[c].ls) <= Len(listeners)
          /\ SubSeq(listeners, 1, Len(calls[c].ls)) = calls[c].ls

\* the values of sequence q, and how often m is among them
Values(q) == {q[i] : i \in DOMAIN q}

Count(q, m) == Cardinality({i \in DOMAIN q : q[i] = m})

\* the steps that are a Find or a GetByKey of caller t
IsFind(t) ==
    /\ pc[t] = "idle"
    /\ frame'[t].op = "Find"
    /\ frame'[t] # frame[t] \/ found' # found

IsGetByKey(t) ==
    /\ pc[t] = "idle"
    /\ frame'[t].op = "GetByKey"
    /\ frame'[t] # frame[t] \/ got' # got

\* C21: Find returns each manifest of the registry that passes the test once
\* and no other, in some order; Find and GetByKey leave the registry, the
\* listeners, the wait group and the goroutines as they are.
C21_Find ==
    [][\A t \in Threads :
         /\ IsFind(t) =>
               /\ \A k \in DOMAIN manifests :
                     Count(found', manifests[k]) =
                        (IF frame'[t].test = "any" \/ manifests[k].Name = "n1"
                         THEN 1 ELSE 0)
               /\ Values(found') \subseteq {manifests[k] : k \in DOMAIN manifests}
               /\ UNCHANGED <<manifests, listeners, wg, gor, calls>>
         /\ IsGetByKey(t) =>
               UNCHANGED <<manifests, listeners, wg, gor, calls>>]_vars

\* a Find has returned both manifests of a registry of two while a listener is
\* registered and a goroutine is pending
C21_Witness ==
    /\ \E t \in Threads : pc[t] = "idle" /\ frame[t].op = "Find" /\ frame[t].test = "any"
    /\ Len(found) = 2
    /\ Values(found) = {manifests[k] : k \in DOMAIN manifests}
    /\ listeners # <<>>
    /\ \E g \in gor : g.st = "spawned"

\* C22: every entry of the registry is stored under the key of its own value,
\* so no two entries have the same apiVersion, kind and name.
C22_StoredUnderOwnKey ==
    /\ \A k \in DOMAIN manifests : CreateKey(manifests[k]) = k
    /\ \A k1, k2 \in DOMAIN manifests :
          k1 # k2 =>
             <<manifests[k1].ApiVersion, manifests[k1].Kind, manifests[k1].Name>> #
             <<manifests[k2].ApiVersion, manifests[k2].Kind, manifests[k2].Name>>

\* the registry holds two entries after an Apply, an ApplyPartial and, last,
\* an ApplySilent that overwrote one of them
C22_Witness ==
    /\ Cardinality(DOMAIN manifests) = 2
    /\ Len(calls) = 2 /\ calls[1].op = "Apply" /\ calls[2].op = "ApplyPartial"
    /\ calls[1].key # calls[2].key
    /\ \E t \in Threads :
          /\ pc[t] = "idle" /\ frame[t].op = "ApplySilent"
          /\ manifests[frame[t].key] = frame[t].manifest
          /\ \E c \in 1..2 : calls[c].key = frame[t].key
                                /\ calls[c].manifest # frame[t].manifest

\* the notifications that were dispatched and have not finished
Unfinished == {g \in gor : g.st # "done"}

\* C23: when the Wait of the program returns, no notification that was
\* dispatched is unfinished, those of a call made by a listener included: the
\* listener R of the first call has made its ApplyPartial, and the goroutines of
\* that call have been started for every other listener and have finished.
C23_WaitCoversNested ==
    [][(pc["t1"] = "wait" /\ pc'["t1"] = "idle") =>
          /\ Unfinished = {}
          /\ wg = 0
          /\ pc["t2"] = "off"
          /\ (Len(calls) > 0 /\ ReapplierAt # {}) =>
                /\ Len(calls) = 2
                /\ calls[2].op = "ApplyPartial"
                /\ \A i \in DOMAIN calls[2].ls :
                      calls[2].ls[i] \notin Reappliers =>
                         \E g \in GorOf(2) : g.idx = i /\ g.st = "done"]_vars

\* A and R are registered in this order, the Wait of the program has returned,
\* and the goroutine that R's ApplyPartial started for A ran after the one the
\* program's Apply started for A
C23_Witness ==
    /\ pc["t1"] = "idle" /\ frame["t1"].op = "Wait"
    /\ listeners = <<"A", "R">>
    /\ Len(calls) = 2
    /\ Unfinished = {}
    /\ \E g \in GorOf(2) : g.listener = "A" /\ g.ord = 2

\* the goroutines of the listener that calls pool.Wait()
WaiterGor == {g \in gor : g.listener \in Waiters}

\* C24: a goroutine whose listener has called pool.Wait() stays in that Wait,
\* the counter stays above zero from the moment a notification of that listener
\* is dispatched, and from then on no Wait of any caller returns.
C24_WaitInListener ==
    /\ [][\A g \in gor : (g.listener \in Waiters /\ g.st = "waiting") => g \in gor']_vars
    /\ [](WaiterGor # {} => wg > 0)
    /\ [][WaiterGor # {} =>
            \A t \in Threads : ~(pc[t] = "wait" /\ pc'[t] = "idle")]_vars

\* the listener W is in its Wait, every other goroutine has finished, and both
\* callers are in a Wait of their own
C24_Witness ==
    /\ \A t \in Threads : pc[t] = "wait"
    /\ \E g \in WaiterGor : g.st = "waiting"
    /\ \A g \in gor \ WaiterGor : g.st = "done"
    /\ gor \ WaiterGor # {}
    /\ wg = Cardinality(WaiterGor)

\* the operations that write the registry
Writers == {"Apply", "ApplyPartial", "ApplySilent", "Delete"}

\* the caller t takes a step of an operation
Acts(t) == pc'[t] # pc[t] \/ frame'[t] # frame[t]

\* every entry of a key other than k is as it was
OthersUnchanged(k) ==
    \A j \in Keys \ {k} : Lookup(manifests', j) = Lookup(manifests, j)

\* C25: every step of Apply, ApplyPartial, ApplySilent and Delete on key k
\* leaves the entries of the other keys and the listener list as they were;
\* Listen leaves the registry as it was and appends one listener at the end of
\* the list; and nothing else changes the registry or the list.
C25_Frame ==
    [][/\ \A t \in Threads :
            (Acts(t) /\ frame'[t].op \in Writers) =>
               /\ listeners' = listeners
               /\ OthersUnchanged(frame'[t].key)
       /\ \A t \in Threads :
            (Acts(t) /\ frame'[t].op = "Listen") =>
               /\ manifests' = manifests
               /\ \E l \in Listeners : listeners' = Append(listeners, l)
       /\ manifests' # manifests =>
            /\ listeners' = listeners
            /\ \E t \in Threads :
                  frame'[t].op \in Writers /\ OthersUnchanged(frame'[t].key)
       /\ listeners' # listeners =>
            /\ manifests' = manifests
            /\ \E l \in Listeners : listeners' = Append(listeners, l)]_vars

\* a Delete that found its key has returned: the key is gone, the entry of the
\* other name is still there, and the two listeners are still registered
C25_Witness ==
    \E t \in Threads :
       /\ pc[t] = "idle" /\ frame[t].op = "Delete" /\ frame[t].ok
       /\ frame[t].key \notin DOMAIN manifests
       /\ Cardinality(DOMAIN manifests) = 1
       /\ Len(listeners) = 2
       /\ Len(calls) = 2 /\ calls[1].op = "Apply" /\ calls[2].op = "Delete"

====
